---- MODULE Spec2Model ----
(***************************************************************************)
(* Model of TableFinder: the table order/filter planner                   *)
(* (utils.filter_and_reorder_tables), the column scanner                  *)
(* (search.search_in_table) and the driver loop (__main__.main).          *)
(*                                                                         *)
(* A Python str is a sequence of one-character strings: "a.Ab" is         *)
(* <<"a", ".", "A", "b">>.  Python's None is the value None below.        *)
(***************************************************************************)
EXTENDS Integers, Sequences, FiniteSets, TLC

VARIABLES
    pc,            \* position of main / search_in_table
    conn,          \* the connection handle: "none", "open", "closed"
    close_calls,   \* number of conn.close() calls made
    catalog,       \* what get_all_tables returned (main's first `tables`)
    start_from,    \* args.start_from
    skip_tables,   \* args.skip_tables
    stop_on_first, \* args.stop_on_first
    output,        \* args.output given
    tables,        \* main's `tables` (planned after filter_and_reorder_tables)
    stats,         \* main's `stats`
    printed,       \* messages main printed from planning on, in order
    i,             \* number of tables the for loop has taken
    scanned,       \* the (schema, table) pairs search_in_table was called with
    columns,       \* search_in_table: `columns`
    col,           \* search_in_table: columns of searchable_columns done so far
    count,         \* search_in_table: `count` of the current column
    results,       \* search_in_table: `results`
    queries,       \* driver calls of the current search_in_table call
    all_results,   \* main's `all_results`
    saved,         \* the total_matches of each output file written
    exit_code      \* the value main returned, once it has

vars == <<pc, conn, close_calls, catalog, start_from, skip_tables, stop_on_first,
          output, tables, stats, printed, i, scanned, columns, col, count,
          results, queries, all_results, saved, exit_code>>

(***************************************************************************)
(* Bounds of the model.                                                    *)
(***************************************************************************)
MaxTables == 3     \* tables get_all_tables returns
MaxTokens == 2     \* comma-separated tokens of --skip-tables
MaxCols == 2       \* columns of one table
MaxCount == 6      \* rows one column matches

(***************************************************************************)
(* Python values and str methods.                                          *)
(***************************************************************************)
None == <<"None">>

\* `if x:` for an Optional[str]
Truthy(x) == x # None /\ x # <<>>

\* `if x:` for a list
NonEmpty(list) == Len(list) > 0

UpperCase == <<"A", "B", "C", "D", "E", "F", "G", "H", "I", "J", "K", "L", "M", "N", "O", "P", "Q", "R", "S", "T", "U", "V", "W", "X", "Y", "Z">>
LowerCase == <<"a", "b", "c", "d", "e", "f", "g", "h", "i", "j", "k", "l", "m", "n", "o", "p", "q", "r", "s", "t", "u", "v", "w", "x", "y", "z">>

\* the lowercase letter of every uppercase letter
LowerOf ==
    [c \in {UpperCase[k] : k \in 1..Len(UpperCase)} |->
        LowerCase[CHOOSE k \in 1..Len(UpperCase) : UpperCase[k] = c]]

\* one character of str.lower()
LowerChar(c) == IF c \in DOMAIN LowerOf THEN LowerOf[c] ELSE c

\* str.lower()
Lower(s) == [k \in 1..Len(s) |-> LowerChar(s[k])]

\* str.strip()
RECURSIVE Strip(_)
Strip(s) ==
    IF s = <<>> THEN s
    ELSE IF Head(s) = " " THEN Strip(Tail(s))
    ELSE IF s[Len(s)] = " " THEN Strip(SubSeq(s, 1, Len(s) - 1))
    ELSE s

\* str.split(sep) for a one-character sep
RECURSIVE Split(_, _)
Split(s, sep) ==
    IF \E k \in 1..Len(s) : s[k] = sep
    THEN LET k == CHOOSE k \in 1..Len(s) : s[k] = sep /\ \A j \in 1..(k - 1) : s[j] # sep
         IN  <<SubSeq(s, 1, k - 1)>> \o Split(SubSeq(s, k + 1, Len(s)), sep)
    ELSE <<s>>

\* `c in s`
Contains(s, c) == \E k \in 1..Len(s) : s[k] = c

\* s.replace(c, '')
Remove(s, c) == SelectSeq(s, LAMBDA x : x # c)

\* s.startswith(p)
StartsWith(s, p) == Len(p) <= Len(s) /\ SubSeq(s, 1, Len(p)) = p

\* sep.join(parts)
RECURSIVE Join(_, _)
Join(parts, sep) ==
    IF parts = <<>> THEN <<>>
    ELSE IF Len(parts) = 1 THEN parts[1]
    ELSE parts[1] \o <<sep>> \o Join(Tail(parts), sep)

\* `x in list`
InList(x, list) == \E k \in 1..Len(list) : list[k] = x

(***************************************************************************)
(* utils.filter_and_reorder_tables                                         *)
(***************************************************************************)
\* the loop variable t after `t = t.strip().lower()`, for every token
SkipTokens(skip) ==
    LET raw == Split(skip, ",")
    IN  [k \in 1..Len(raw) |-> Lower(Strip(raw[k]))]

\* skip_tables_list if the tokens were not stripped
SkipTablesList_NoStrip(skip) ==
    IF Truthy(skip)
    THEN SelectSeq([k \in 1..Len(Split(skip, ",")) |-> Lower(Split(skip, ",")[k])],
                   LAMBDA t : ~Contains(t, "*"))
    ELSE <<>>

\* skip_tables_list after the parse loop
SkipTablesList(skip) ==
    IF Truthy(skip)
    THEN SelectSeq(SkipTokens(skip), LAMBDA t : ~Contains(t, "*"))
    ELSE <<>>

\* skip_patterns if a pattern were the text before the first '*'
SkipPatterns_BeforeStar(skip) ==
    IF Truthy(skip)
    THEN LET pats == SelectSeq(SkipTokens(skip), LAMBDA t : Contains(t, "*"))
         IN  [k \in 1..Len(pats) |-> Split(pats[k], "*")[1]]
    ELSE <<>>

\* skip_patterns after the parse loop
SkipPatterns(skip) ==
    IF Truthy(skip)
    THEN LET pats == SelectSeq(SkipTokens(skip), LAMBDA t : Contains(t, "*"))
         IN  [k \in 1..Len(pats) |-> Remove(pats[k], "*")]
    ELSE <<>>

\* table.split('.')[-1] compared without .lower()
TableNameOnly_CaseSensitive(table) ==
    LET parts == Split(table, ".")
    IN  parts[Len(parts)]

\* table.split('.')[-1].lower()
TableNameOnly(table) ==
    LET parts == Split(table, ".")
    IN  Lower(parts[Len(parts)])

\* start_index if the search loop had no break
StartIndex_LastMatch(tbls, start) ==
    LET hits == {k \in 1..Len(tbls) : Lower(Split(tbls[k], ".")[Len(Split(tbls[k], "."))]) = Lower(start)}
    IN  IF hits = {} THEN 0
        ELSE CHOOSE k \in hits : \A j \in hits : j <= k

\* start_index after the search loop; 0 stands for None
StartIndex(tbls, start) ==
    LET hits == {k \in 1..Len(tbls) : TableNameOnly(tbls[k]) = Lower(start)}
    IN  IF hits = {} THEN 0
        ELSE CHOOSE k \in hits : \A j \in hits : k <= j

\* tables[start_index:] alone
Reorder_DropsHead(tbls, idx) == SubSeq(tbls, idx, Len(tbls))

\* tables[start_index:] + tables[:start_index]
Reorder(tbls, idx) ==
    SubSeq(tbls, idx, Len(tbls)) \o SubSeq(tbls, 1, idx - 1)

\* `tables` after the start-from block
Reordered(tbls, start) ==
    IF Truthy(start) /\ StartIndex(tbls, start) # 0
    THEN Reorder(tbls, StartIndex(tbls, start))
    ELSE tbls

\* the filter loop without its exact-match test
IsSkipped_PatternsOnly(name, list, patterns) ==
    \E k \in 1..Len(patterns) : StartsWith(name, patterns[k])

\* whether the filter loop drops a table with this lowercased bare name
IsSkipped(name, list, patterns) ==
    \/ InList(name, list)
    \/ \E k \in 1..Len(patterns) : StartsWith(name, patterns[k])

\* filtered_tables
FilteredTables(tbls, list, patterns) ==
    SelectSeq(tbls, LAMBDA t : ~IsSkipped(TableNameOnly(t), list, patterns))

\* skipped_count
SkippedCount(before, after) == Len(before) - Len(after)

\* the (tables, stats) pair filter_and_reorder_tables returns
FilterAndReorderTables(tbls, start, skip) ==
    LET list == SkipTablesList(skip)
        patterns == SkipPatterns(skip)
        reordered == Reordered(tbls, start)
        filtering == NonEmpty(list) \/ NonEmpty(patterns)
        final == IF filtering THEN FilteredTables(reordered, list, patterns)
                 ELSE reordered
    IN  [tables |-> final,
         stats |-> [original_count |-> Len(tbls),
                    skipped_count |-> IF filtering THEN SkippedCount(reordered, final)
                                      ELSE 0,
                    final_count |-> Len(final),
                    started_from |-> IF Truthy(start) /\ StartIndex(tbls, start) # 0
                                     THEN start ELSE None,
                    skipped_tables |-> IF Truthy(skip) THEN Split(skip, ",")
                                       ELSE <<>>]]

(***************************************************************************)
(* table_finder.main: the planning code of the legacy entry point          *)
(***************************************************************************)
\* skip_tables_list
LegacySkipTablesList(skip) ==
    IF Truthy(skip)
    THEN LET raw == Split(skip, ",")
         IN  [k \in 1..Len(raw) |-> Lower(Strip(raw[k]))]
    ELSE <<>>

\* `tables` after the start-from block
LegacyReordered(tbls, start) ==
    IF Truthy(start)
    THEN LET hits == {k \in 1..Len(tbls) :
                        Lower(Split(tbls[k], ".")[Len(Split(tbls[k], "."))]) = Lower(start)}
         IN  IF hits = {} THEN tbls
             ELSE LET start_index == CHOOSE k \in hits : \A j \in hits : k <= j
                  IN  SubSeq(tbls, start_index, Len(tbls)) \o SubSeq(tbls, 1, start_index - 1)
    ELSE tbls

\* `tables` when the search loop starts
LegacyTables(tbls, start, skip) ==
    LET list == LegacySkipTablesList(skip)
        reordered == LegacyReordered(tbls, start)
    IN  IF NonEmpty(list)
        THEN SelectSeq(reordered,
                       LAMBDA t : ~InList(Lower(Split(t, ".")[Len(Split(t, "."))]), list))
        ELSE reordered

(***************************************************************************)
(* Inputs.  The catalog is a selection of rows of INFORMATION_SCHEMA       *)
(* .TABLES in ORDER BY TABLE_SCHEMA, TABLE_NAME order; a name or a schema  *)
(* may itself hold a '.'.                                                  *)
(***************************************************************************)
AllRows ==
    << [schema |-> <<"a">>, name |-> <<"a", "b">>],
       [schema |-> <<"a">>, name |-> <<"A", "b", "b">>],
       [schema |-> <<"a">>, name |-> <<"b">>],
       [schema |-> <<"a", ".", "a">>, name |-> <<"b", "a">>],
       [schema |-> <<"b">>, name |-> <<"a", ".", "b">>],
       [schema |-> <<"b">>, name |-> <<"A", "B">>] >>

\* f"{row.TABLE_SCHEMA}.{row.TABLE_NAME}"
TableString(row) == row.schema \o <<".">> \o row.name

\* the rows of AllRows at the positions in sel, in catalog order
RECURSIVE RowsAt(_, _)
RowsAt(sel, k) ==
    IF k > Len(AllRows) THEN <<>>
    ELSE (IF k \in sel THEN <<TableString(AllRows[k])>> ELSE <<>>) \o RowsAt(sel, k + 1)

\* every list get_all_tables can return
Catalogs ==
    {RowsAt(sel, 1) : sel \in {s \in SUBSET (1..Len(AllRows)) : Cardinality(s) <= MaxTables}}

StartFroms ==
    {None, <<>>, <<"a", "b">>, <<"A", "B">>, <<"b">>, <<"B", "a">>, <<"b", "b">>}

SkipTokenTexts ==
    { <<"a", "b">>, <<" ", "A", "B", " ">>, <<"A", "b", "*">>, <<"b", "*", "a">>,
      <<"*", "b">>, <<"*">>, <<>> }

RECURSIVE TokenLists(_)
TokenLists(n) ==
    IF n = 0 THEN {<<>>}
    ELSE {<<t>> \o rest : t \in SkipTokenTexts, rest \in TokenLists(n - 1)}

SkipSpecs ==
    {None} \cup {Join(toks, ",") : toks \in UNION {TokenLists(n) : n \in 1..MaxTokens}}

(***************************************************************************)
(* search.should_skip_column and the database the scanner reads            *)
(***************************************************************************)
SkipTypes ==
    { <<"i", "m", "a", "g", "e">>,
      <<"b", "i", "n", "a", "r", "y">>,
      <<"v", "a", "r", "b", "i", "n", "a", "r", "y">>,
      <<"t", "i", "m", "e", "s", "t", "a", "m", "p">>,
      <<"r", "o", "w", "v", "e", "r", "s", "i", "o", "n">>,
      <<"g", "e", "o", "g", "r", "a", "p", "h", "y">>,
      <<"g", "e", "o", "m", "e", "t", "r", "y">> }

\* should_skip_column without .lower()
ShouldSkipColumn_CaseSensitive(data_type) == data_type \in SkipTypes

\* should_skip_column(data_type)
ShouldSkipColumn(data_type) == Lower(data_type) \in SkipTypes

\* searchable_columns
SearchableColumns(cols) == SelectSeq(cols, LAMBDA c : ~ShouldSkipColumn(c.type))

\* the row limit of the sample query (SELECT TOP 5)
SampleLimit == 5

\* rows of a sample query without TOP
SampleRows_NoLimit(n) == n

\* rows the sample query returns for a column matching n rows
SampleRows(n) == IF n < SampleLimit THEN n ELSE SampleLimit

\* sample_values: one str per fetched row
SampleValues(n) == [k \in 1..SampleRows(n) |-> "v"]

\* f"[{schema}].[{table}]"
FullTableName(schema, table) ==
    <<"[">> \o schema \o <<"]", ".", "[">> \o table \o <<"]">>

\* DATA_TYPE values of INFORMATION_SCHEMA.COLUMNS
SearchableTypes == { <<"i", "n", "t">>, <<"v", "a", "r", "c", "h", "a", "r">> }
DataTypes ==
    SkipTypes \cup SearchableTypes \cup { <<"I", "M", "A", "G", "E">>, <<"G", "e", "o", "m", "e", "t", "r", "y">> }

\* column lists of up to n columns, named by ordinal position
RECURSIVE TypeLists(_, _)
TypeLists(types, n) ==
    IF n = 0 THEN {<<>>}
    ELSE {<<>>} \cup {<<t>> \o rest : t \in types, rest \in TypeLists(types, n - 1)}

\* the rows get_table_columns fetches, as {'name': ..., 'type': ...}
Cols(tl) == [k \in 1..Len(tl) |-> [name |-> k, type |-> tl[k]]]

ColumnLists(types) == {Cols(tl) : tl \in TypeLists(types, MaxCols)}

\* match counts a count query can return
Counts == 0..MaxCount

(***************************************************************************)
(* Inputs of a whole run of main.                                          *)
(***************************************************************************)
RunCatalogs ==
    {RowsAt(sel, 1) : sel \in {s \in SUBSET {1, 3, 5, 6} : Cardinality(s) <= MaxTables}}

RunStartFroms == {None, <<"B">>, <<"b", "b">>}

RunSkipSpecs == {None, <<"a", "b", "*">>}

RunColumnLists ==
    { Cols(<<>>),
      Cols(<< <<"i", "n", "t">> >>),
      Cols(<< <<"I", "M", "A", "G", "E">>, <<"i", "n", "t">> >>),
      Cols(<< <<"i", "n", "t">>, <<"v", "a", "r", "c", "h", "a", "r">> >>) }

RunCounts == {0, SampleLimit + 1}

(***************************************************************************)
(* __main__.main                                                           *)
(***************************************************************************)
config == <<start_from, skip_tables, stop_on_first, output>>
scan == <<columns, col, count, results, queries>>

\* `except Exception as e: ... return 1`
Fatal ==
    /\ printed' = Append(printed, "Error")
    /\ pc' = "done"
    /\ exit_code' = <<1>>

\* what main prints about the plan
PlanMessages(st) ==
    (IF Truthy(st.started_from) THEN <<"Starting with table">> ELSE <<>>)
    \o (IF st.skipped_count > 0 THEN <<"Skipping">> ELSE <<>>)
    \o <<"Searching">>

\* conn = get_connection()
Connect ==
    /\ pc = "connect"
    /\ conn' = "open"
    /\ pc' = "list"
    /\ UNCHANGED <<close_calls, catalog, config, tables, stats, printed, i, scanned,
                   scan, all_results, saved, exit_code>>

\* get_connection raises: missing configuration, no driver, connection failure
ConnectFail ==
    /\ pc = "connect"
    /\ Fatal
    /\ UNCHANGED <<conn, close_calls, catalog, config, tables, stats, i,
                   scanned, scan, all_results, saved>>

\* tables = get_all_tables(conn, args.table_pattern)
GetAllTables(catalogs) ==
    /\ pc = "list"
    /\ \E c \in catalogs :
          /\ catalog' = c
          /\ tables' = c
    /\ pc' = "plan"
    /\ UNCHANGED <<conn, close_calls, config, stats, printed, i, scanned, scan,
                   all_results, saved, exit_code>>

\* get_all_tables raises pyodbc.Error
GetAllTablesFail ==
    /\ pc = "list"
    /\ Fatal
    /\ UNCHANGED <<conn, close_calls, catalog, config, tables, stats, i,
                   scanned, scan, all_results, saved>>

\* tables, stats = filter_and_reorder_tables(...) and the statistics printed
Plan ==
    /\ pc = "plan"
    /\ LET r == FilterAndReorderTables(tables, start_from, skip_tables)
       IN  /\ tables' = r.tables
           /\ stats' = r.stats
           /\ printed' = printed \o PlanMessages(r.stats)
    /\ pc' = "loop"
    /\ UNCHANGED <<conn, close_calls, catalog, config, i, scanned, scan, all_results,
                   saved, exit_code>>

\* the for loop takes the next table and calls search_in_table
LoopNext ==
    /\ pc = "loop"
    /\ i < Len(tables)
    /\ LET parts == Split(tables[i + 1], ".")
       IN  /\ Len(parts) = 2
           /\ scanned' = Append(scanned, parts)
    /\ i' = i + 1
    /\ columns' = <<>>
    /\ col' = 0
    /\ count' = 0
    /\ results' = <<>>
    /\ queries' = <<>>
    /\ pc' = "columns"
    /\ UNCHANGED <<conn, close_calls, catalog, config, tables, stats, printed,
                   all_results, saved, exit_code>>

\* `schema, table_name = table.split('.')` raises ValueError
LoopSplitFail ==
    /\ pc = "loop"
    /\ i < Len(tables)
    /\ Len(Split(tables[i + 1], ".")) # 2
    /\ Fatal
    /\ UNCHANGED <<conn, close_calls, catalog, config, tables, stats, i,
                   scanned, scan, all_results, saved>>

\* the for loop is exhausted
LoopExit ==
    /\ pc = "loop"
    /\ i = Len(tables)
    /\ pc' = "report"
    /\ UNCHANGED <<conn, close_calls, catalog, config, tables, stats, printed, i,
                   scanned, scan, all_results, saved, exit_code>>

\* the loop body putting a table's records in front of the earlier ones
Return_Prepends ==
    /\ pc = "return"
    /\ all_results' = results \o all_results
    /\ IF stop_on_first /\ all_results' # <<>>
       THEN /\ printed' = Append(printed, "First match found")
            /\ pc' = "report"
       ELSE /\ printed' = printed
            /\ pc' = "loop"
    /\ UNCHANGED <<conn, close_calls, catalog, config, tables, stats, i, scanned,
                   scan, saved, exit_code>>

\* the loop body without the stop-on-first check
Return_NeverStops ==
    /\ pc = "return"
    /\ all_results' = all_results \o results
    /\ printed' = printed
    /\ pc' = "loop"
    /\ UNCHANGED <<conn, close_calls, catalog, config, tables, stats, i, scanned,
                   scan, saved, exit_code>>

\* search_in_table returned: extend all_results, then the stop-on-first check
Return ==
    /\ pc = "return"
    /\ all_results' = all_results \o results
    /\ IF stop_on_first /\ all_results' # <<>>
       THEN /\ printed' = Append(printed, "First match found")
            /\ pc' = "report"
       ELSE /\ printed' = printed
            /\ pc' = "loop"
    /\ UNCHANGED <<conn, close_calls, catalog, config, tables, stats, i, scanned,
                   scan, saved, exit_code>>

\* print(format_results(all_results, args.search_value))
Report ==
    /\ pc = "report"
    /\ printed' = Append(printed, IF all_results = <<>> THEN "No matches found"
                                  ELSE "Found")
    /\ pc' = IF output THEN "save" ELSE "close"
    /\ UNCHANGED <<conn, close_calls, catalog, config, tables, stats, i, scanned,
                   scan, all_results, saved, exit_code>>

\* save_results_to_file(all_results, args.output, args.search_value)
Save ==
    /\ pc = "save"
    /\ saved' = Append(saved, Len(all_results))
    /\ pc' = "close"
    /\ UNCHANGED <<conn, close_calls, catalog, config, tables, stats, printed, i,
                   scanned, scan, all_results, exit_code>>

\* save_results_to_file raises (the file cannot be opened or written)
SaveFail ==
    /\ pc = "save"
    /\ Fatal
    /\ UNCHANGED <<conn, close_calls, catalog, config, tables, stats, i,
                   scanned, scan, all_results, saved>>

\* conn.close(); return 0
Close_ReturnsZero ==
    /\ pc = "close"
    /\ conn' = "closed"
    /\ close_calls' = close_calls + 1
    /\ exit_code' = <<0>>
    /\ pc' = "done"
    /\ UNCHANGED <<catalog, config, tables, stats, printed, i, scanned, scan,
                   all_results, saved>>

\* conn.close(); return 0 if all_results else 1
Close ==
    /\ pc = "close"
    /\ conn' = "closed"
    /\ close_calls' = close_calls + 1
    /\ exit_code' = IF all_results # <<>> THEN <<0>> ELSE <<1>>
    /\ pc' = "done"
    /\ UNCHANGED <<catalog, config, tables, stats, printed, i, scanned, scan,
                   all_results, saved>>

\* conn.close() raises pyodbc.Error
CloseFail ==
    /\ pc = "close"
    /\ close_calls' = close_calls + 1
    /\ conn' \in {"open", "closed"}
    /\ Fatal
    /\ UNCHANGED <<catalog, config, tables, stats, i, scanned, scan,
                   all_results, saved>>

(***************************************************************************)
(* search.search_in_table                                                  *)
(***************************************************************************)
main == <<conn, close_calls, catalog, config, tables, stats, printed, i, scanned,
          all_results, saved, exit_code>>

\* schema and table of the running call
Schema == scanned[Len(scanned)][1]
Table == scanned[Len(scanned)][2]

\* the column the for loop is at
Column == SearchableColumns(columns)[col + 1]

\* position after the loop body of one column
NextColumn ==
    /\ col' = col + 1
    /\ pc' = IF col + 1 = Len(SearchableColumns(columns)) THEN "close_cursor" ELSE "count"

\* the dict appended to results
MatchRecord(column, n) ==
    [table |-> FullTableName(Schema, Table),
     column |-> column.name,
     data_type |-> column.type,
     match_count |-> n,
     sample_values |-> SampleValues(n)]

\* one driver call of the log: its kind, the column it reads, whether the
\* driver answered, and the count or the number of rows it answered with;
\* conn.cursor() and cursor.close() are logged when they raise
Query(kind, column, ok, value) ==
    [kind |-> kind, column |-> column, ok |-> ok, value |-> value]

\* columns = get_table_columns(...); the searchable_columns test
GetTableColumns(lists) ==
    /\ pc = "columns"
    /\ \E cl \in lists :
          /\ columns' = cl
          /\ pc' = IF SearchableColumns(cl) = <<>> THEN "return" ELSE "cursor"
    /\ queries' = Append(queries, Query("columns", 0, TRUE, Len(columns')))
    /\ UNCHANGED <<main, col, count, results>>

\* get_table_columns raises pyodbc.Error
GetTableColumnsFail ==
    /\ pc = "columns"
    /\ queries' = Append(queries, Query("columns", 0, FALSE, 0))
    /\ pc' = "return"
    /\ UNCHANGED <<main, columns, col, count, results>>

\* cursor = conn.cursor()
OpenCursor ==
    /\ pc = "cursor"
    /\ pc' = "count"
    /\ UNCHANGED <<main, scan>>

\* conn.cursor() raises pyodbc.Error
OpenCursorFail ==
    /\ pc = "cursor"
    /\ queries' = Append(queries, Query("cursor", 0, FALSE, 0))
    /\ pc' = "return"
    /\ UNCHANGED <<main, columns, col, count, results>>

\* the count query without the `if count > 0` test
CountQuery_AlwaysSamples(counts) ==
    /\ pc = "count"
    /\ \E n \in counts :
          /\ count' = n
          /\ queries' = Append(queries, Query("count", Column.name, TRUE, n))
    /\ pc' = "sample"
    /\ col' = col
    /\ UNCHANGED <<main, columns, results>>

\* cursor.execute(count_query, ...); count = cursor.fetchone()[0]; if count > 0
CountQuery(counts) ==
    /\ pc = "count"
    /\ \E n \in counts :
          /\ count' = n
          /\ queries' = Append(queries, Query("count", Column.name, TRUE, n))
          /\ IF n > 0
             THEN /\ pc' = "sample"
                  /\ col' = col
             ELSE NextColumn
    /\ UNCHANGED <<main, columns, results>>

\* the count query raising without the inner try: the outer except ends the scan
CountQueryFail_EndsScan ==
    /\ pc = "count"
    /\ queries' = Append(queries, Query("count", Column.name, FALSE, 0))
    /\ pc' = "return"
    /\ UNCHANGED <<main, columns, col, count, results>>

\* the count query raises pyodbc.Error
CountQueryFail ==
    /\ pc = "count"
    /\ queries' = Append(queries, Query("count", Column.name, FALSE, 0))
    /\ NextColumn
    /\ UNCHANGED <<main, columns, count, results>>

\* cursor.execute(sample_query, ...); sample_values; results.append
SampleQuery ==
    /\ pc = "sample"
    /\ queries' = Append(queries, Query("sample", Column.name, TRUE, SampleRows(count)))
    /\ results' = Append(results, MatchRecord(Column, count))
    /\ NextColumn
    /\ UNCHANGED <<main, columns, count>>

\* the sample query raises pyodbc.Error
SampleQueryFail ==
    /\ pc = "sample"
    /\ queries' = Append(queries, Query("sample", Column.name, FALSE, 0))
    /\ NextColumn
    /\ UNCHANGED <<main, columns, count, results>>

\* cursor.close()
CloseCursor ==
    /\ pc = "close_cursor"
    /\ pc' = "return"
    /\ UNCHANGED <<main, scan>>

\* cursor.close() raises pyodbc.Error: the outer except, then `return results`
CloseCursorFail ==
    /\ pc = "close_cursor"
    /\ queries' = Append(queries, Query("close", 0, FALSE, 0))
    /\ pc' = "return"
    /\ UNCHANGED <<main, columns, col, count, results>>

(***************************************************************************)
(* Specifications.                                                         *)
(***************************************************************************)
InitScan ==
    /\ columns = <<>>
    /\ col = 0
    /\ count = 0
    /\ results = <<>>
    /\ queries = <<>>

\* a run of main from its try block on
Init ==
    /\ pc = "connect"
    /\ conn = "none"
    /\ close_calls = 0
    /\ catalog = <<>>
    /\ start_from \in RunStartFroms
    /\ skip_tables \in RunSkipSpecs
    /\ stop_on_first \in BOOLEAN
    /\ output \in BOOLEAN
    /\ tables = <<>>
    /\ stats = None
    /\ printed = <<>>
    /\ i = 0
    /\ scanned = <<>>
    /\ InitScan
    /\ all_results = <<>>
    /\ saved = <<>>
    /\ exit_code = <<>>

ScanNext(lists, counts) ==
    \/ GetTableColumns(lists)
    \/ GetTableColumnsFail
    \/ OpenCursor
    \/ OpenCursorFail
    \/ CountQuery(counts)
    \/ CountQueryFail
    \/ SampleQuery
    \/ SampleQueryFail
    \/ CloseCursor
    \/ CloseCursorFail

Next ==
    \/ Connect
    \/ ConnectFail
    \/ GetAllTables(RunCatalogs)
    \/ GetAllTablesFail
    \/ Plan
    \/ LoopNext
    \/ LoopSplitFail
    \/ LoopExit
    \/ ScanNext(RunColumnLists, RunCounts)
    \/ Return
    \/ Report
    \/ Save
    \/ SaveFail
    \/ Close
    \/ CloseFail

Spec == Init /\ [][Next]_vars

\* filter_and_reorder_tables applied to every input
PlanInit ==
    /\ pc = "plan"
    /\ conn = "open"
    /\ close_calls = 0
    /\ catalog \in Catalogs
    /\ tables = catalog
    /\ start_from \in StartFroms
    /\ skip_tables \in SkipSpecs
    /\ stop_on_first = FALSE
    /\ output = FALSE
    /\ stats = None
    /\ printed = <<>>
    /\ i = 0
    /\ scanned = <<>>
    /\ InitScan
    /\ all_results = <<>>
    /\ saved = <<>>
    /\ exit_code = <<>>

PlanSpec == PlanInit /\ [][Plan]_vars

\* one call of search_in_table against every table content
ScanInit ==
    /\ pc = "columns"
    /\ conn = "open"
    /\ close_calls = 0
    /\ catalog = <<TableString(AllRows[1])>>
    /\ tables = catalog
    /\ start_from = None
    /\ skip_tables = None
    /\ stop_on_first = FALSE
    /\ output = FALSE
    /\ stats = FilterAndReorderTables(catalog, None, None).stats
    /\ printed = PlanMessages(stats)
    /\ i = 1
    /\ scanned = <<Split(tables[1], ".")>>
    /\ InitScan
    /\ all_results = <<>>
    /\ saved = <<>>
    /\ exit_code = <<>>

ScanSpec == ScanInit /\ [][ScanNext(ColumnLists(DataTypes), Counts)]_vars

(***************************************************************************)
(* Vocabulary of the properties.                                           *)
(***************************************************************************)
\* the planner has just returned to main
Planned == pc = "loop" /\ i = 0

Range(seq) == {seq[k] : k \in 1..Len(seq)}

\* how often x occurs in seq
Occurrences(seq, x) == Cardinality({k \in 1..Len(seq) : seq[k] = x})

\* the text of a table string after its last '.'
BareName(t) ==
    LET dots == {k \in 1..Len(t) : t[k] = "."}
    IN  IF dots = {} THEN t
        ELSE SubSeq(t, (CHOOSE k \in dots : \A j \in dots : j <= k) + 1, Len(t))

\* equal but for the case of letters
SameNoCase(a, b) == Lower(a) = Lower(b)

\* seq shifted cyclically so that position k + 1 comes first
Rotation(seq, k) == SubSeq(seq, k + 1, Len(seq)) \o SubSeq(seq, 1, k)

\* the --skip-tables tokens as written, and trimmed
RawTokens(skip) == Range(Split(skip, ","))
Tokens(skip) == {Strip(t) : t \in RawTokens(skip)}

\* the text of a token before its first '*'
BeforeStar(t) ==
    LET stars == {k \in 1..Len(t) : t[k] = "*"}
    IN  IF stars = {} THEN t
        ELSE SubSeq(t, 1, (CHOOSE k \in stars : \A j \in stars : k <= j) - 1)

(***************************************************************************)
(* C1: for a non-empty skipSpec, final_count + skipped_count equals        *)
(* original_count, final_count is the length of the returned list, and no  *)
(* returned table has a bare name equal, but for case, to a skip token     *)
(* without '*' (the token taken as written or trimmed).                    *)
(***************************************************************************)
C1_CountsAndExactSkips ==
    (Planned /\ Truthy(skip_tables)) =>
        /\ stats.original_count = Len(catalog)
        /\ stats.final_count + stats.skipped_count = stats.original_count
        /\ stats.final_count = Len(tables)
        /\ \A t \in Range(tables) :
              \A tok \in RawTokens(skip_tables) \cup Tokens(skip_tables) :
                  ~Contains(tok, "*") => ~SameNoCase(BareName(t), tok)

\* an exact token removed a table although the list was rotated first
C1_Witness ==
    /\ Planned
    /\ Truthy(skip_tables)
    /\ Truthy(stats.started_from)
    /\ stats.skipped_count > 0
    /\ stats.final_count > 0
    /\ \E t \in Range(catalog) : \E tok \in Tokens(skip_tables) :
          ~Contains(tok, "*") /\ SameNoCase(BareName(t), tok) /\ BareName(t) # tok

(***************************************************************************)
(* C2: a skipSpec that is one token "abc*" removes exactly the tables      *)
(* whose bare name starts with "abc" but for case; the others stay, in     *)
(* their relative (cyclic, when startFrom rotated the list) order and      *)
(* with their spelling.                                                    *)
(***************************************************************************)
\* skip is one token: a prefix without '*' and ',', then one '*'
IsPrefixPattern(skip) ==
    /\ Truthy(skip)
    /\ skip[Len(skip)] = "*"
    /\ ~Contains(SubSeq(skip, 1, Len(skip) - 1), "*")
    /\ ~Contains(skip, ",")
    /\ Strip(skip) = skip

HasPrefix(t, prefix) == StartsWith(Lower(BareName(t)), Lower(prefix))

C2_PrefixPatternRemovesExactly ==
    (Planned /\ IsPrefixPattern(skip_tables)) =>
        LET prefix == SubSeq(skip_tables, 1, Len(skip_tables) - 1)
            Kept(seq) == SelectSeq(seq, LAMBDA t : ~HasPrefix(t, prefix))
        IN  /\ Range(tables) = {t \in Range(catalog) : ~HasPrefix(t, prefix)}
            /\ \E k \in 0..Len(catalog) : tables = Kept(Rotation(catalog, k))
            /\ ~Truthy(start_from) => tables = Kept(catalog)

\* a prefix pattern removed some tables (one spelled in another case) and kept some
C2_Witness ==
    /\ Planned
    /\ IsPrefixPattern(skip_tables)
    /\ Len(skip_tables) > 1
    /\ Len(tables) > 1
    /\ \E t \in Range(catalog) \ Range(tables) :
          ~StartsWith(BareName(t), SubSeq(skip_tables, 1, Len(skip_tables) - 1))

(***************************************************************************)
(* C3 as claimed: a table is dropped exactly when its lowercased bare name *)
(* equals a token without '*' or starts with the part of a token with '*'  *)
(* that precedes the token's first '*'.                                    *)
(***************************************************************************)
DroppedBy(t, tok, Prefix(_)) ==
    IF Contains(tok, "*")
    THEN StartsWith(Lower(BareName(t)), Prefix(Lower(tok)))
    ELSE Lower(BareName(t)) = Lower(tok)

C3_MatchesTextBeforeFirstStar ==
    (Planned /\ Truthy(skip_tables)) =>
        \A t \in Range(catalog) :
            t \notin Range(tables) <=>
                \E tok \in Tokens(skip_tables) : DroppedBy(t, tok, BeforeStar)

(***************************************************************************)
(* C3 amended: a table is dropped exactly when its lowercased bare name    *)
(* equals a token without '*' or starts with a token with '*' from which   *)
(* every '*' was removed: text after a '*' is part of the prefix.          *)
(***************************************************************************)
WithoutStars(t) == SelectSeq(t, LAMBDA c : c # "*")

C3_MatchesTokenWithoutStars ==
    (Planned /\ Truthy(skip_tables)) =>
        \A t \in Range(catalog) :
            t \notin Range(tables) <=>
                \E tok \in Tokens(skip_tables) : DroppedBy(t, tok, WithoutStars)

\* a token with text after its '*' dropped one table and kept another that
\* starts with the text before the '*'
C3_Witness ==
    /\ Planned
    /\ Truthy(skip_tables)
    /\ \E tok \in Tokens(skip_tables) :
          /\ Contains(tok, "*")
          /\ BeforeStar(tok) # WithoutStars(tok)
          /\ \E t \in Range(catalog) \ Range(tables) : DroppedBy(t, tok, WithoutStars)
          /\ \E t \in Range(tables) : DroppedBy(t, tok, BeforeStar)

(***************************************************************************)
(* C4: with startFrom and without skipSpec the result is                   *)
(* tables[idx:] + tables[:idx] for the first idx whose bare name equals    *)
(* startFrom but for case: same multiset, the matched table first; without *)
(* a match the result is the input.                                        *)
(***************************************************************************)
C4_RotationAtFirstMatch ==
    (Planned /\ Truthy(start_from) /\ ~Truthy(skip_tables)) =>
        LET hits == {k \in 1..Len(catalog) : SameNoCase(BareName(catalog[k]), start_from)}
        IN  IF hits = {}
            THEN tables = catalog
            ELSE LET idx == CHOOSE k \in hits : \A j \in hits : k <= j
                 IN  /\ tables = Rotation(catalog, idx - 1)
                     /\ tables[1] = catalog[idx]
                     /\ \A t \in Range(catalog) \cup Range(tables) :
                           Occurrences(tables, t) = Occurrences(catalog, t)

\* two tables match startFrom and the first of them, not at index 0, came first
C4_Witness ==
    /\ Planned
    /\ Truthy(start_from)
    /\ ~Truthy(skip_tables)
    /\ Cardinality({k \in 1..Len(catalog) : SameNoCase(BareName(catalog[k]), start_from)}) > 1
    /\ tables # catalog
    /\ Len(tables) = Len(catalog)

(***************************************************************************)
(* C5: when startFrom is given and no bare name equals it, the order is    *)
(* unchanged and the caller is told: the returned stats, or what main      *)
(* prints about the plan, differ from those of the same call without       *)
(* startFrom.                                                              *)
(***************************************************************************)
StartNotFound ==
    /\ Truthy(start_from)
    /\ \A t \in Range(catalog) : ~SameNoCase(BareName(t), start_from)

C5_NotFoundIsSignalled ==
    (Planned /\ StartNotFound) =>
        LET absent == FilterAndReorderTables(catalog, None, skip_tables)
        IN  /\ tables = absent.tables
            /\ \/ stats # absent.stats
               \/ PlanMessages(stats) # PlanMessages(absent.stats)

(***************************************************************************)
(* C6: for one table list and skipSpec, the set of returned tables and     *)
(* skipped_count are the same for every startFrom (each equals what the    *)
(* call without startFrom returns), and the returned order is the catalog  *)
(* order cyclically shifted with the skipped tables removed.               *)
(***************************************************************************)
C6_StartFromOnlyShifts ==
    Planned =>
        /\ LET absent == FilterAndReorderTables(catalog, None, skip_tables)
           IN  /\ Range(absent.tables) = Range(tables)
               /\ absent.stats.skipped_count = stats.skipped_count
        /\ \E k \in 0..Len(catalog) :
              tables = SelectSeq(Rotation(catalog, k), LAMBDA t : t \in Range(tables))

\* startFrom names a table that is itself skipped, and the list was still shifted
C6_Witness ==
    /\ Planned
    /\ Truthy(stats.started_from)
    /\ \E t \in Range(catalog) \ Range(tables) : SameNoCase(BareName(t), start_from)
    /\ Len(tables) > 1
    /\ tables # FilterAndReorderTables(catalog, None, skip_tables).tables

(***************************************************************************)
(* Vocabulary of the scanner properties.                                   *)
(***************************************************************************)
\* positions in the query log of the queries of one kind on one column
QueriesOn(kind, column) ==
    {k \in 1..Len(queries) : queries[k].kind = kind /\ queries[k].column = column}

\* the count and sample queries in the log
DataQueries == {k \in 1..Len(queries) : queries[k].kind \in {"count", "sample"}}

\* search_in_table has returned to its caller
Returned == pc = "return"

\* the records of one column in results
RecordsOf(column) == {k \in 1..Len(results) : results[k].column = column}

(***************************************************************************)
(* C7: with --stop-on-first the loop stops right after the scan of the     *)
(* first planned table that produced a record: once all_results holds a    *)
(* record main is past the loop, the tables scanned are the planned        *)
(* tables up to that one, in order, the earlier ones produced nothing,     *)
(* every searchable column of that table was queried, and all_results is   *)
(* the whole result of that table's scan.                                  *)
(***************************************************************************)
C7_StopsAfterFirstMatchingTable ==
    (stop_on_first /\ all_results # <<>>) =>
        /\ pc \in {"report", "save", "close", "done"}
        /\ i = Len(scanned)
        /\ i <= Len(tables)
        /\ \A k \in 1..i : scanned[k] = Split(tables[k], ".")
        /\ all_results = results
        /\ \A k \in 1..Len(all_results) :
              all_results[k].table = FullTableName(scanned[i][1], scanned[i][2])
        /\ \A k \in 1..Len(SearchableColumns(columns)) :
              QueriesOn("count", SearchableColumns(columns)[k].name) # {}

\* the run ended at the second of three planned tables; one of its two
\* searchable columns matched, the other was still queried
C7_Witness ==
    /\ pc = "done"
    /\ stop_on_first
    /\ i = 2
    /\ Len(tables) = 3
    /\ Len(all_results) = 1
    /\ all_results[1].column = 1
    /\ Len(SearchableColumns(columns)) = 2
    /\ exit_code = <<0>>

(***************************************************************************)
(* C8: a sample query follows the count query of its column; a column      *)
(* whose count is 0 gets no record and no sample query; every record has   *)
(* match_count >= 1 and belongs to a column whose count query returned     *)
(* that count; a searchable column gets at most one count query and one    *)
(* sample query.                                                           *)
(***************************************************************************)
C8_CountThenSample ==
    /\ \A k \in DataQueries :
          queries[k].kind = "sample" =>
              /\ k > 1
              /\ queries[k - 1].kind = "count"
              /\ queries[k - 1].column = queries[k].column
              /\ queries[k - 1].ok
              /\ queries[k - 1].value > 0
    /\ \A k \in DataQueries :
          (queries[k].kind = "count" /\ queries[k].ok /\ queries[k].value = 0) =>
              /\ QueriesOn("sample", queries[k].column) = {}
              /\ RecordsOf(queries[k].column) = {}
    /\ \A k \in 1..Len(results) :
          /\ results[k].match_count >= 1
          /\ \E q \in QueriesOn("count", results[k].column) :
                queries[q].ok /\ queries[q].value = results[k].match_count
    /\ \A k \in 1..Len(columns) :
          /\ Cardinality(QueriesOn("count", columns[k].name)) <= 1
          /\ Cardinality(QueriesOn("sample", columns[k].name)) <= 1

\* of two searchable columns the first counted 0 and the second matched
C8_Witness ==
    /\ Returned
    /\ Len(queries) = 4
    /\ queries[2].kind = "count" /\ queries[2].ok /\ queries[2].value = 0
    /\ queries[3].kind = "count"
    /\ queries[4].kind = "sample"
    /\ Len(results) = 1
    /\ results[1].column = 2

(***************************************************************************)
(* C9: with the table unchanged between the two queries of a column, a     *)
(* record has at most match_count and at most 5 sample values, and a       *)
(* column that matches N >= 5 rows yields a record with match_count N and  *)
(* exactly 5 sample values.                                                *)
(***************************************************************************)
C9_SampleSizes ==
    /\ \A k \in 1..Len(results) :
          /\ Len(results[k].sample_values) <= results[k].match_count
          /\ Len(results[k].sample_values) <= 5
    /\ \A k \in DataQueries :
          (/\ queries[k].kind = "sample"
           /\ queries[k].ok
           /\ queries[k - 1].value >= 5) =>
              \E r \in RecordsOf(queries[k].column) :
                  /\ results[r].match_count = queries[k - 1].value
                  /\ Len(results[r].sample_values) = 5

\* one column matched more than 5 rows, another fewer than 5
C9_Witness ==
    /\ Returned
    /\ \E k \in 1..Len(results) :
          results[k].match_count > 5 /\ Len(results[k].sample_values) = 5
    /\ \E k \in 1..Len(results) :
          results[k].match_count < 5
          /\ Len(results[k].sample_values) = results[k].match_count

(***************************************************************************)
(* C10: no count or sample query reads a column whose data type is, but    *)
(* for case, image, binary, varbinary, timestamp, rowversion, geography    *)
(* or geometry; a table with only such columns, or with none, yields an    *)
(* empty result and no count or sample query.                              *)
(***************************************************************************)
ExcludedTypes ==
    { <<"i", "m", "a", "g", "e">>,
      <<"b", "i", "n", "a", "r", "y">>,
      <<"v", "a", "r", "b", "i", "n", "a", "r", "y">>,
      <<"t", "i", "m", "e", "s", "t", "a", "m", "p">>,
      <<"r", "o", "w", "v", "e", "r", "s", "i", "o", "n">>,
      <<"g", "e", "o", "g", "r", "a", "p", "h", "y">>,
      <<"g", "e", "o", "m", "e", "t", "r", "y">> }

IsExcluded(column) == \E t \in ExcludedTypes : SameNoCase(column.type, t)

C10_ExcludedTypesNeverQueried ==
    /\ \A k \in DataQueries : ~IsExcluded(columns[queries[k].column])
    /\ (Returned /\ \A k \in 1..Len(columns) : IsExcluded(columns[k])) =>
          /\ results = <<>>
          /\ DataQueries = {}

\* an excluded column spelled in capitals was passed over, its neighbour queried
C10_Witness ==
    /\ Returned
    /\ \E k \in 1..Len(columns) :
          /\ IsExcluded(columns[k])
          /\ columns[k].type \notin ExcludedTypes
    /\ DataQueries # {}

\* a table of excluded columns only returned without a count or sample query
C10_WitnessAllExcluded ==
    /\ Returned
    /\ Len(columns) > 1
    /\ \A k \in 1..Len(columns) : IsExcluded(columns[k])
    /\ DataQueries = {}

(***************************************************************************)
(* Vocabulary of the failure properties.                                   *)
(***************************************************************************)
\* the outer except of the running search_in_table call caught an error
TableFailed ==
    \E k \in 1..Len(queries) :
        queries[k].kind \in {"columns", "cursor", "close"} /\ ~queries[k].ok

\* the columns of the count queries in the log, in the order issued
CountedColumns ==
    LET cq == SelectSeq(queries, LAMBDA q : q.kind = "count")
    IN  [k \in 1..Len(cq) |-> cq[k].column]

\* the names of the searchable columns, in ordinal order
SearchableNames ==
    [k \in 1..Len(SearchableColumns(columns)) |-> SearchableColumns(columns)[k].name]

(***************************************************************************)
(* C11: a table-level driver failure (column enumeration, cursor creation, *)
(* closing the cursor) makes search_in_table return no record for the      *)
(* table, so that none of its records reaches all_results.                 *)
(***************************************************************************)
C11_TableFailureDiscardsRecords ==
    (TableFailed /\ pc \in {"return", "loop", "report", "save", "close", "done"}) =>
        /\ Returned => results = <<>>
        /\ \A k \in 1..Len(all_results) :
              all_results[k].table # FullTableName(Schema, Table)

(***************************************************************************)
(* C12: a column whose count or sample query fails gets no record; the     *)
(* records of the other columns are kept; the searchable columns are       *)
(* queried in ordinal order and, once the cursor is open, all of them are, *)
(* whatever fails on the way.                                              *)
(***************************************************************************)
C12_ColumnFailureSkipsColumnOnly ==
    /\ \A k \in DataQueries : ~queries[k].ok => RecordsOf(queries[k].column) = {}
    /\ \A k \in DataQueries :
          (queries[k].kind = "sample" /\ queries[k].ok) =>
              RecordsOf(queries[k].column) # {}
    /\ Len(CountedColumns) <= Len(SearchableNames)
    /\ CountedColumns = SubSeq(SearchableNames, 1, Len(CountedColumns))
    /\ (/\ pc \in {"close_cursor", "return"}
        /\ \A k \in 1..Len(queries) : queries[k].kind \in {"cursor", "columns"} => queries[k].ok
        /\ queries # <<>>)
          => CountedColumns = SearchableNames

\* the first column's sample query failed, the second column was still
\* scanned and its record returned
C12_Witness ==
    /\ Returned
    /\ \E k \in DataQueries :
          queries[k].kind = "sample" /\ ~queries[k].ok /\ queries[k].column = 1
    /\ Len(results) = 1
    /\ results[1].column = 2

(***************************************************************************)
(* Vocabulary of the run properties.                                       *)
(***************************************************************************)
\* main has returned
Done == pc = "done"

\* the except clause of main caught an error
FatalError == "Error" \in Range(printed)

\* the position in the plan of the table a record belongs to; 0 if none
PlannedIndex(record) ==
    LET hits == {j \in 1..Len(tables) :
                    /\ Len(Split(tables[j], ".")) = 2
                    /\ FullTableName(Split(tables[j], ".")[1], Split(tables[j], ".")[2])
                          = record.table}
    IN  IF hits = {} THEN 0 ELSE CHOOSE j \in hits : TRUE

(***************************************************************************)
(* C13 as claimed: main returns 0 if at least one record was produced      *)
(* during the run and 1 otherwise.                                         *)
(***************************************************************************)
C13_ZeroIffRecordProduced ==
    Done => (exit_code = <<0>> <=> all_results # <<>>)

(***************************************************************************)
(* C13 amended: main returns 0 if at least one record was produced and no  *)
(* fatal error ended the run, and 1 otherwise: a fatal error gives 1 also  *)
(* after records were produced.                                            *)
(***************************************************************************)
C13_ZeroIffRecordAndNoFatalError ==
    Done =>
        /\ exit_code \in {<<0>>, <<1>>}
        /\ exit_code = <<0>> <=> (all_results # <<>> /\ ~FatalError)

\* records were produced and a fatal error still made main return 1
C13_Witness ==
    /\ Done
    /\ all_results # <<>>
    /\ FatalError
    /\ exit_code = <<1>>

(***************************************************************************)
(* C14: all_results is ordered by planned table order and, within a        *)
(* table, by column ordinal; it only grows at its end; the total_matches   *)
(* written to the output file is its length.                               *)
(***************************************************************************)
ResultsOrdered ==
    /\ \A k \in 1..Len(all_results) : PlannedIndex(all_results[k]) \in 1..i
    /\ \A k, l \in 1..Len(all_results) :
          k < l =>
              \/ PlannedIndex(all_results[k]) < PlannedIndex(all_results[l])
              \/ /\ all_results[k].table = all_results[l].table
                 /\ all_results[k].column < all_results[l].column
    /\ \A k \in 1..Len(saved) : saved[k] = Len(all_results)

C14_ResultsInPlanOrder ==
    /\ []ResultsOrdered
    /\ [][/\ Len(all_results') >= Len(all_results)
          /\ SubSeq(all_results', 1, Len(all_results)) = all_results]_vars

\* two tables gave three records, two of them of one table, and the file was written
C14_Witness ==
    /\ Done
    /\ saved = <<3>>
    /\ Len(all_results) = 3
    /\ all_results[1].table # all_results[3].table
    /\ all_results[2].table = all_results[3].table

(***************************************************************************)
(* C15: without --stop-on-first, whatever the names of the tables, main    *)
(* leaves the loop only after one search_in_table call per planned table,  *)
(* in planned order and with that table's schema and name.                 *)
(***************************************************************************)
C15_EveryPlannedTableScanned ==
    (~stop_on_first /\ pc \in {"report", "save", "close", "done"}) =>
        /\ i = Len(tables)
        /\ Len(scanned) = Len(tables)
        /\ \A k \in 1..Len(tables) : Join(scanned[k], ".") = tables[k]

(***************************************************************************)
(* C16: for a skipSpec without '*', the planning code of the legacy entry  *)
(* point yields the list and the counts filter_and_reorder_tables yields.  *)
(***************************************************************************)
C16_LegacyPlanAgrees ==
    (Planned /\ ~Contains(skip_tables, "*")) =>
        LET legacy == LegacyTables(catalog, start_from, skip_tables)
        IN  /\ legacy = tables
            /\ Len(legacy) = stats.final_count
            /\ Len(catalog) - Len(legacy) = stats.skipped_count

\* both rotate and both drop a table named by a token written with blanks
C16_Witness ==
    /\ Planned
    /\ Truthy(skip_tables)
    /\ ~Contains(skip_tables, "*")
    /\ Contains(skip_tables, " ")
    /\ Truthy(stats.started_from)
    /\ stats.skipped_count > 0
    /\ Len(tables) > 1
    /\ tables[1] # catalog[1]

(***************************************************************************)
(* C17: whenever main returns after the connection was opened, the         *)
(* connection has been closed exactly once.                                *)
(***************************************************************************)
C17_ConnectionClosedOnce ==
    (Done /\ conn # "none") =>
        /\ close_calls = 1
        /\ conn = "closed"

====
